---------------------------- MODULE Spec2Model ----------------------------
(* rand.c: emit random bytes from the OpenSSL RAND API, seeding RAND from  *)
(* a persistent seed file or from /dev/random, and saving RAND state back  *)
(* to the seed file afterwards.                                            *)
(*                                                                         *)
(* The invocations of the program (Procs) share one file system.  Each     *)
(* action is one system or library call of main/seed_rand/seed_save        *)
(* together with the local code around it.  Under Spec the program is run  *)
(* again and again, one run after the other; under SpecConc a second       *)
(* invocation may be started while the first is running.                   *)
EXTENDS Integers, Sequences, FiniteSets, TLC

VARIABLES
    fs,        \* the seed path and its parent directory (shared by all runs)
    dev,       \* the entropy device ENTROPY_SOURCE (shared by all runs)
    pc,        \* pc[p]: position of invocation p in main
    args,      \* args[p]: the global args_t of invocation p
    st,        \* st[p]: struct stat seed_stat of seed_rand
    seed,      \* seed[p]: const char* seed of seed_rand
    size,      \* size[p]: int size of seed_rand
    buf,       \* buf[p]: the first args.bytes bytes of buffer in main
    out,       \* out[p]: bytes written to standard output
    err,       \* err[p]: messages written to standard error
    status,    \* status[p]: process exit status
    unlinks,   \* unlinks[p]: number of unlink(seed_file) calls made
    loadret,   \* loadret[p]: value returned by RAND_load_file
    saveret,   \* saveret[p]: value returned by RAND_write_file
    prevsave,  \* prevsave[p]: what RAND_write_file returned to the run before p's
    runs,      \* number of invocations started so far
    cmdline    \* cmdline[p]: argv of invocation p, until args_parse has read it

vars == <<fs, dev, pc, args, st, seed, size, buf, out, err, status, unlinks,
          loadret, saveret, prevsave, runs, cmdline>>

Procs == {"A", "B"}

-----------------------------------------------------------------------------
(* Program constants *)

SEED_FILE      == "/var/lib/rand/rand.seed"
ENTROPY_SOURCE == "/dev/random"
SEED_DIR       == "/var/lib/rand"
ENTROPY_SIZE   == 32
EXIT_SUCCESS   == 0
EXIT_FAILURE   == 1

(* Bounds of the model *)

\* largest byte count requested (stands for MAX_BYTES)
MaxBytes == 2
\* number of times the program is run
MaxRuns == 2
\* values a drawn byte takes: '\n' and 0xab
ByteVals == {10, 171}
\* An off_t is 64 bits wide and an int 32: the off_t value hi * 2^31 + lo is
\* kept as the pair of its bits from 31 up (hi) and its low 31 bits (lo).
Off(hi, lo) == [hi |-> hi, lo |-> lo]
\* byte lengths of a regular seed file found at start: 0, 31, 32, 2048,
\* 2^31 + 40 and 2^32 + 40
FileSizes == {Off(0, 0), Off(0, 31), Off(0, 32), Off(0, 2048), Off(1, 40), Off(2, 40)}
\* st_size reported for a directory or a symbolic link
OtherSizes == {Off(0, 31), Off(0, 4096)}
\* byte counts RAND_write_file writes and returns when it succeeds: the
\* library writes its whole state buffer, never fewer than ENTROPY_SIZE bytes
WriteLens == {256, 1024}

\* seed_stat before lstat has filled it
NoStat == [kind |-> "none", size |-> Off(0, 0)]
\* stands for "the call has not returned yet": no library call returns it
NoRet == 0 - 2

-----------------------------------------------------------------------------
(* Pure helpers *)

\* conversion of an off_t to int (size = seed_stat.st_size): the low 32 bits,
\* bit 31 being the sign
ToInt(x) == IF x.hi % 2 = 1 THEN x.lo - 2147483647 - 1 ELSE x.lo

\* an off_t compared with an int: x < n, for n >= 0
OffLess(x, n) == x.hi = 0 /\ x.lo < n

\* Accessible with R_OK alone
AccessibleReadOnly(f) == f.kind # "missing" /\ f.r

\* access (seed_file, R_OK | W_OK) == 0
Accessible(f) == f.kind # "missing" /\ f.r /\ f.w

\* S_ISREG (seed_stat.st_mode)
S_ISREG(s) == s.kind = "regular"

\* the ASCII code of hexadecimal digit d, lowercase (printf "%x")
HexDigit(d) == IF d < 10 THEN 48 + d ELSE 87 + d

\* printf ("%x", b): no padding to two digits
HexNoPad(b) ==
    IF b < 16 THEN <<HexDigit(b)>> ELSE <<HexDigit(b \div 16), HexDigit(b % 16)>>

\* printf ("%02x", b)
Hex02(b) == <<HexDigit(b \div 16), HexDigit(b % 16)>>

RECURSIVE PrintLoop(_, _, _)
\* the for loop of main from index i on
PrintLoop(b, i, hex) ==
    IF i > Len(b) THEN <<>>
    ELSE (IF hex THEN Hex02(b[i]) ELSE <<b[i]>>) \o PrintLoop(b, i + 1, hex)

\* everything main prints to standard output
Output(b, hex) == PrintLoop(b, 1, hex) \o (IF hex THEN <<10>> ELSE <<>>)

\* what RAND_load_file (file, n) returns when no I/O error occurs
LoadCount(file, n, f) ==
    IF file = ENTROPY_SOURCE THEN n
    ELSE IF f.kind # "regular" THEN -1
    ELSE IF n < 0 THEN ToInt(f.size)
    ELSE IF OffLess(f.size, n) THEN f.size.lo
    ELSE n

-----------------------------------------------------------------------------
(* Initial states *)

FsStates ==
    {[dir |-> d, kind |-> "missing", size |-> Off(0, 0), r |-> FALSE, w |-> FALSE] :
        d \in BOOLEAN}
    \cup {[dir |-> TRUE, kind |-> "regular", size |-> s, r |-> TRUE, w |-> TRUE] :
        s \in FileSizes}
    \cup {[dir |-> TRUE, kind |-> "regular", size |-> s, r |-> m[1], w |-> m[2]] :
        s \in {Off(0, 0), Off(0, 2048)}, m \in {<<TRUE, FALSE>>, <<FALSE, TRUE>>, <<FALSE, FALSE>>}}
    \cup {[dir |-> TRUE, kind |-> k, size |-> s, r |-> TRUE, w |-> TRUE] :
        k \in {"directory", "symlink"}, s \in OtherSizes}

\* args_t args = { 0, }
NoArgs == [hex |-> FALSE, verbose |-> FALSE, bytes |-> 0]

\* no command line: the program is not started yet, or args_parse has read it
NoCmd == [opts |-> <<>>, dd |-> FALSE, pos |-> <<>>]

\* the options a command line may hold: the three of the options table and
\* one that is not in it
OptTokens == {"--hex", "--verbose", "--help", "--bogus"}

\* the options of a command line, in the order given: none, one of
\* OptTokens, or both flags
OptSeqs ==
    {<<>>} \cup {<<a>> : a \in OptTokens} \cup {<<"--hex", "--verbose">>}

DigitChars == <<"0", "1", "2", "3", "4", "5", "6", "7", "8", "9">>

IsDigit(c) == \E d \in 1..10 : DigitChars[d] = c

DigitVal(c) == (CHOOSE d \in 1..10 : DigitChars[d] = c) - 1

RECURSIVE Digits(_)
\* the decimal numeral of n >= 0, as a sequence of characters
Digits(n) ==
    IF n < 10 THEN <<DigitChars[n + 1]>>
    ELSE Digits(n \div 10) \o <<DigitChars[(n % 10) + 1]>>

\* the words given for the bytes argument: the numerals of 0..MaxBytes+1 and
\* of 2000, a negative numeral, a word that is no numeral and a numeral
\* followed by a letter
Tokens ==
    {Digits(n) : n \in 0..(MaxBytes + 1)}
    \cup {Digits(2000), <<"-", "1">>, <<"x">>, <<"1", "x">>}

\* the command lines: options, then "--" (dd) or not, then the other words.
\* "--" is given only before a word that starts with "-".
CmdLines ==
    {[opts |-> o, dd |-> FALSE, pos |-> ps] :
        o \in OptSeqs,
        ps \in {<<>>} \cup {<<t>> : t \in Tokens} \cup {<<Digits(1), Digits(1)>>}}
    \cup {[opts |-> <<>>, dd |-> TRUE, pos |-> <<<<"-", "1">>>>]}

RECURSIVE StrtolDigits(_, _, _)
\* strtol: the digits of t from index i on, up to the first character that
\* is no digit, added to acc
StrtolDigits(t, i, acc) ==
    IF i > Len(t) \/ ~IsDigit(t[i]) THEN acc
    ELSE StrtolDigits(t, i + 1, acc * 10 + DigitVal(t[i]))

\* strtol (argv[optind], NULL, 10)
Strtol(t) ==
    IF t # <<>> /\ t[1] = "-" THEN 0 - StrtolDigits(t, 2, 0)
    ELSE StrtolDigits(t, 1, 0)

RECURSIVE GetoptLoop(_, _, _)
\* the while loop of args_parse over the options from index i on: the
\* flags set, and whether the loop ended in USAGE and exit (EXIT_SUCCESS)
GetoptLoop(opts, i, a) ==
    IF i > Len(opts) THEN [hex |-> a.hex, verbose |-> a.verbose, usage |-> FALSE]
    ELSE IF opts[i] = "--hex" THEN GetoptLoop(opts, i + 1, [a EXCEPT !.hex = TRUE])
    ELSE IF opts[i] = "--verbose"
         THEN GetoptLoop(opts, i + 1, [a EXCEPT !.verbose = TRUE])
    ELSE [hex |-> a.hex, verbose |-> a.verbose, usage |-> TRUE]

\* getopt_long takes a word that starts with "-" for an option, unless "--"
\* precedes it
DashWord(c) == ~c.dd /\ \E i \in 1..Len(c.pos) : c.pos[i][1] = "-"

\* args_sanity, on the long that strtol returned: args.bytes is a size_t,
\* so a negative value is a huge one (> MAX_BYTES) and <= 0 means 0;
\* LONG_MIN and LONG_MAX are beyond MAX_BYTES as well
ArgsSanity(v) == IF v < 0 \/ v > MaxBytes \/ v = 0 THEN 1 ELSE 0

\* the state of an invocation at the start of seed_rand
Fresh ==
    /\ st = [p \in Procs |-> NoStat]
    /\ seed = [p \in Procs |-> SEED_FILE]
    /\ size = [p \in Procs |-> ENTROPY_SIZE]
    /\ buf = [p \in Procs |-> <<>>]
    /\ out = [p \in Procs |-> <<>>]
    /\ err = [p \in Procs |-> <<>>]
    /\ status = [p \in Procs |-> NoRet]
    /\ unlinks = [p \in Procs |-> 0]
    /\ loadret = [p \in Procs |-> NoRet]
    /\ saveret = [p \in Procs |-> NoRet]
    /\ prevsave = [p \in Procs |-> NoRet]

\* one invocation, A, is started
Init ==
    /\ fs \in FsStates
    /\ dev = "device"
    /\ pc = [p \in Procs |-> IF p = "A" THEN "exec" ELSE "idle"]
    /\ args = [p \in Procs |-> NoArgs]
    /\ cmdline = [p \in Procs |-> NoCmd]
    /\ runs = 1
    /\ Fresh

-----------------------------------------------------------------------------
(* main, args_parse and args_sanity *)

\* the process has exited: "rejected" in args_parse or after args_sanity,
\* "failed" after seed_rand or get_rand, "done" after seed_save
Exited(p) == pc[p] \in {"done", "failed", "rejected"}

\* main is entered with a command line
Exec(p) ==
    /\ pc[p] = "exec"
    /\ \E c \in CmdLines : cmdline' = [cmdline EXCEPT ![p] = c]
    /\ pc' = [pc EXCEPT ![p] = "parse"]
    /\ UNCHANGED <<fs, args, st, seed, size, buf, out, err, status, unlinks,
                   loadret, saveret, prevsave, runs, dev>>

\* args_parse (argc, argv); if (args_sanity ()) exit (EXIT_FAILURE);
ParseArgs(p) ==
    /\ pc[p] = "parse"
    /\ LET c == cmdline[p]
           g == GetoptLoop(c.opts, 1, NoArgs)
           v == Strtol(c.pos[1])
       IN IF g.usage \/ DashWord(c)
          THEN /\ args' = [args EXCEPT ![p] = [@ EXCEPT !.hex = g.hex,
                                                       !.verbose = g.verbose]]
               /\ err' = [err EXCEPT ![p] = Append(@, "Usage")]
               /\ pc' = [pc EXCEPT ![p] = "rejected"]
               /\ status' = [status EXCEPT ![p] = EXIT_SUCCESS]
          ELSE IF Len(c.pos) # 1
          THEN /\ args' = [args EXCEPT ![p] = [@ EXCEPT !.hex = g.hex,
                                                       !.verbose = g.verbose]]
               /\ err' = [err EXCEPT ![p] = Append(@, "Usage")]
               /\ pc' = [pc EXCEPT ![p] = "rejected"]
               /\ status' = [status EXCEPT ![p] = EXIT_FAILURE]
          ELSE /\ args' = [args EXCEPT ![p] =
                             [hex |-> g.hex, verbose |-> g.verbose, bytes |-> v]]
               /\ IF ArgsSanity(v) # 0
                  THEN /\ err' = [err EXCEPT ![p] =
                                    Append(@, "'bytes' must be between")]
                       /\ pc' = [pc EXCEPT ![p] = "rejected"]
                       /\ status' = [status EXCEPT ![p] = EXIT_FAILURE]
                  ELSE /\ pc' = [pc EXCEPT ![p] = "start"]
                       /\ UNCHANGED <<err, status>>
    /\ cmdline' = [cmdline EXCEPT ![p] = NoCmd]
    /\ UNCHANGED <<fs, st, seed, size, buf, out, unlinks, loadret, saveret,
                   prevsave, runs, dev>>

-----------------------------------------------------------------------------
(* seed_rand *)

\* the seed path after a successful unlink
Removed(f) == [f EXCEPT !.kind = "missing", !.size = Off(0, 0), !.r = FALSE, !.w = FALSE]

\* unlink (seed_file) can succeed: the path exists and is no directory
Unlinkable(f) == f.kind \in {"regular", "symlink"}

\* TooSmall with the bound off by one
TooSmallOffByOne(s) == OffLess(s.size, ENTROPY_SIZE - 1)

\* seed_stat.st_size < ENTROPY_SIZE
TooSmall(s) == OffLess(s.size, ENTROPY_SIZE)

\* if (access (seed_file, R_OK | W_OK) == 0) ... else fall back
Access(p) ==
    /\ pc[p] = "start"
    /\ IF Accessible(fs)
       THEN /\ pc' = [pc EXCEPT ![p] = "lstat"]
            /\ UNCHANGED <<seed, err>>
       ELSE /\ seed' = [seed EXCEPT ![p] = ENTROPY_SOURCE]
            /\ err' = [err EXCEPT ![p] = Append(@, "Unable to access seed file")]
            /\ pc' = [pc EXCEPT ![p] = "load"]
    /\ UNCHANGED <<fs, args, st, size, buf, out, status, unlinks, loadret, saveret,
                   prevsave, runs, cmdline, dev>>

\* if (lstat (seed_file, &seed_stat) == -1) goto err_out; main exits
Lstat(p) ==
    /\ pc[p] = "lstat"
    /\ \E e \in {"OK", "ENOENT", "EIO"} :
         /\ (e = "ENOENT") <=> (fs.kind = "missing")
         /\ IF e = "OK"
            THEN /\ st' = [st EXCEPT ![p] = [kind |-> fs.kind, size |-> fs.size]]
                 /\ pc' = [pc EXCEPT ![p] = "chkreg"]
                 /\ UNCHANGED <<err, status>>
            ELSE /\ err' = [err EXCEPT ![p] = Append(@, "lstat: " \o e)]
                 /\ pc' = [pc EXCEPT ![p] = "failed"]
                 /\ status' = [status EXCEPT ![p] = EXIT_FAILURE]
                 /\ UNCHANGED st
    /\ UNCHANGED <<fs, args, seed, size, buf, out, unlinks, loadret, saveret, prevsave, runs, cmdline, dev>>

\* unlink (seed): the path seed_rand selected, ENTROPY_SOURCE at both calls
UnlinkPathSeed(p) == ENTROPY_SOURCE

\* the argument of both unlink calls of seed_rand: seed_file
UnlinkPath(p) == SEED_FILE

\* unlink (seed_file), with perror when it returns -1
Unlink(p, msg) ==
    \E ok \in BOOLEAN :
      /\ ok => (UnlinkPath(p) = SEED_FILE => Unlinkable(fs))
      /\ fs' = IF ok /\ UnlinkPath(p) = SEED_FILE THEN Removed(fs) ELSE fs
      /\ dev' = IF ok /\ UnlinkPath(p) = ENTROPY_SOURCE THEN "removed" ELSE dev
      /\ unlinks' = [unlinks EXCEPT ![p] = @ + 1]
      /\ err' = [err EXCEPT ![p] =
                   IF ok THEN Append(@, msg)
                   ELSE Append(Append(@, msg), "unlink failed")]

\* CheckRegular with err_out taken for a path that is no regular file
CheckRegularFatal(p) ==
    /\ pc[p] = "chkreg"
    /\ IF ~S_ISREG(st[p])
       THEN /\ err' = [err EXCEPT ![p] = Append(@, "Seed file isn't regular file")]
            /\ pc' = [pc EXCEPT ![p] = "failed"]
            /\ status' = [status EXCEPT ![p] = EXIT_FAILURE]
       ELSE /\ pc' = [pc EXCEPT ![p] = "chksize"]
            /\ UNCHANGED <<err, status>>
    /\ UNCHANGED <<fs, args, st, seed, size, buf, out, unlinks, loadret, saveret,
                   prevsave, runs, cmdline, dev>>

\* CheckRegular with the unlink call left out
CheckRegularNoUnlink(p) ==
    /\ pc[p] = "chkreg"
    /\ IF ~S_ISREG(st[p])
       THEN /\ seed' = [seed EXCEPT ![p] = ENTROPY_SOURCE]
            /\ err' = [err EXCEPT ![p] = Append(@, "Seed file isn't regular file")]
       ELSE UNCHANGED <<seed, err>>
    /\ pc' = [pc EXCEPT ![p] = "chksize"]
    /\ UNCHANGED <<fs, args, st, size, buf, out, status, unlinks, loadret, saveret,
                   prevsave, runs, cmdline, dev>>

\* if (!S_ISREG (seed_stat.st_mode)) { fall back; unlink }
CheckRegular(p) ==
    /\ pc[p] = "chkreg"
    /\ IF ~S_ISREG(st[p])
       THEN /\ seed' = [seed EXCEPT ![p] = ENTROPY_SOURCE]
            /\ Unlink(p, "Seed file isn't regular file")
       ELSE UNCHANGED <<seed, fs, dev, unlinks, err>>
    /\ pc' = [pc EXCEPT ![p] = "chksize"]
    /\ UNCHANGED <<args, st, size, buf, out, status, loadret, saveret, prevsave, runs, cmdline>>

\* CheckSize with the else branch (size = seed_stat.st_size) left out
CheckSizeKeepsDefault(p) ==
    /\ pc[p] = "chksize"
    /\ IF TooSmall(st[p])
       THEN /\ seed' = [seed EXCEPT ![p] = ENTROPY_SOURCE]
            /\ Unlink(p, "Seed file is too small")
       ELSE UNCHANGED <<seed, fs, dev, unlinks, err>>
    /\ pc' = [pc EXCEPT ![p] = "load"]
    /\ UNCHANGED <<args, st, size, buf, out, status, loadret, saveret, prevsave, runs, cmdline>>

\* if (seed_stat.st_size < ENTROPY_SIZE) { fall back; unlink } else size = st_size
CheckSize(p) ==
    /\ pc[p] = "chksize"
    /\ IF TooSmall(st[p])
       THEN /\ seed' = [seed EXCEPT ![p] = ENTROPY_SOURCE]
            /\ Unlink(p, "Seed file is too small")
            /\ UNCHANGED size
       ELSE /\ size' = [size EXCEPT ![p] = ToInt(st[p].size)]
            /\ UNCHANGED <<seed, fs, dev, unlinks, err>>
    /\ pc' = [pc EXCEPT ![p] = "load"]
    /\ UNCHANGED <<args, st, buf, out, status, loadret, saveret, prevsave, runs, cmdline>>

\* LoadFile with the result of RAND_load_file tested for -1 only
LoadFileErrorOnly(p) ==
    /\ pc[p] = "load"
    /\ \E ret \in {LoadCount(seed[p], size[p], fs), -1, 0} :
         /\ loadret' = [loadret EXCEPT ![p] = ret]
         /\ IF ret = -1
            THEN /\ err' = [err EXCEPT ![p] = Append(@, "RAND_load_file failed")]
                 /\ pc' = [pc EXCEPT ![p] = "failed"]
                 /\ status' = [status EXCEPT ![p] = EXIT_FAILURE]
            ELSE /\ err' = [err EXCEPT ![p] =
                              IF args[p].verbose
                              THEN Append(@, "RAND_load_file: loaded") ELSE @]
                 /\ pc' = [pc EXCEPT ![p] = "draw"]
                 /\ UNCHANGED status
    /\ UNCHANGED <<fs, args, st, seed, size, buf, out, unlinks, saveret, prevsave, runs, cmdline, dev>>

\* if (RAND_load_file (seed, size) != size) goto err_out; main exits.
\* LoadFile with seed_rand starting over when RAND_load_file fails
LoadFileRetry(p) ==
    /\ pc[p] = "load"
    /\ \E ret \in {LoadCount(seed[p], size[p], fs), -1, 0} :
         IF ret # size[p]
         THEN /\ pc' = [pc EXCEPT ![p] = "start"]
              /\ st' = [st EXCEPT ![p] = NoStat]
              /\ seed' = [seed EXCEPT ![p] = SEED_FILE]
              /\ size' = [size EXCEPT ![p] = ENTROPY_SIZE]
              /\ UNCHANGED <<loadret, err>>
         ELSE /\ loadret' = [loadret EXCEPT ![p] = ret]
              /\ err' = [err EXCEPT ![p] =
                           IF args[p].verbose
                           THEN Append(@, "RAND_load_file: loaded") ELSE @]
              /\ pc' = [pc EXCEPT ![p] = "draw"]
              /\ UNCHANGED <<st, seed, size>>
    /\ UNCHANGED <<fs, args, buf, out, status, unlinks, saveret, prevsave, runs, cmdline, dev>>

\* RAND_load_file returns the count it read, or on an I/O or library error
\* -1 or 0, depending on the library version.
LoadFile(p) ==
    /\ pc[p] = "load"
    /\ \E ret \in {LoadCount(seed[p], size[p], fs), -1, 0} :
         /\ loadret' = [loadret EXCEPT ![p] = ret]
         /\ IF ret # size[p]
            THEN /\ err' = [err EXCEPT ![p] = Append(@, "RAND_load_file failed")]
                 /\ pc' = [pc EXCEPT ![p] = "failed"]
                 /\ status' = [status EXCEPT ![p] = EXIT_FAILURE]
            ELSE /\ err' = [err EXCEPT ![p] =
                              IF args[p].verbose
                              THEN Append(@, "RAND_load_file: loaded") ELSE @]
                 /\ pc' = [pc EXCEPT ![p] = "draw"]
                 /\ UNCHANGED status
    /\ UNCHANGED <<fs, args, st, seed, size, buf, out, unlinks, saveret, prevsave, runs, cmdline, dev>>

-----------------------------------------------------------------------------
(* get_rand and the output loop of main *)

\* GetRand with main going on to print the buffer when get_rand returns NULL
GetRandUnchecked(p) ==
    /\ pc[p] = "draw"
    /\ LET e1 == IF args[p].verbose THEN Append(err[p], "reading RAND_bytes")
                 ELSE err[p]
       IN \/ /\ err' = [err EXCEPT ![p] = e1]
             /\ UNCHANGED status
          \/ /\ err' = [err EXCEPT ![p] = Append(e1, "RAND_bytes failed")]
             /\ UNCHANGED status
    /\ \E b \in [1..args[p].bytes -> ByteVals] : buf' = [buf EXCEPT ![p] = b]
    /\ pc' = [pc EXCEPT ![p] = "print"]
    /\ UNCHANGED <<fs, args, st, seed, size, out, unlinks, loadret, saveret,
                   prevsave, runs, cmdline, dev>>

\* GetRand with the "reading" message printed whatever args.verbose is
GetRandChatty(p) ==
    /\ pc[p] = "draw"
    /\ LET e1 == Append(err[p], "reading RAND_bytes")
       IN \/ /\ \E b \in [1..args[p].bytes -> ByteVals] :
                   buf' = [buf EXCEPT ![p] = b]
             /\ err' = [err EXCEPT ![p] = e1]
             /\ pc' = [pc EXCEPT ![p] = "print"]
             /\ UNCHANGED status
          \/ /\ err' = [err EXCEPT ![p] = Append(e1, "RAND_bytes failed")]
             /\ pc' = [pc EXCEPT ![p] = "failed"]
             /\ status' = [status EXCEPT ![p] = EXIT_FAILURE]
             /\ UNCHANGED buf
    /\ UNCHANGED <<fs, args, st, seed, size, out, unlinks, loadret, saveret, prevsave, runs, cmdline, dev>>

\* if (get_rand (buffer, args.bytes) == NULL) exit (EXIT_FAILURE)
GetRand(p) ==
    /\ pc[p] = "draw"
    /\ LET e1 == IF args[p].verbose THEN Append(err[p], "reading RAND_bytes")
                 ELSE err[p]
       IN \/ /\ \E b \in [1..args[p].bytes -> ByteVals] :
                   buf' = [buf EXCEPT ![p] = b]
             /\ err' = [err EXCEPT ![p] = e1]
             /\ pc' = [pc EXCEPT ![p] = "print"]
             /\ UNCHANGED status
          \/ /\ err' = [err EXCEPT ![p] = Append(e1, "RAND_bytes failed")]
             /\ pc' = [pc EXCEPT ![p] = "failed"]
             /\ status' = [status EXCEPT ![p] = EXIT_FAILURE]
             /\ UNCHANGED buf
    /\ UNCHANGED <<fs, args, st, seed, size, out, unlinks, loadret, saveret, prevsave, runs, cmdline, dev>>

\* PrintOutput with main exiting without the call of seed_save
PrintOutputNoSave(p) ==
    /\ pc[p] = "print"
    /\ out' = [out EXCEPT ![p] = @ \o Output(buf[p], args[p].hex)]
    /\ pc' = [pc EXCEPT ![p] = "done"]
    /\ status' = [status EXCEPT ![p] = EXIT_SUCCESS]
    /\ UNCHANGED <<fs, args, st, seed, size, buf, err, unlinks,
                   loadret, saveret, prevsave, runs, cmdline, dev>>

\* for (i = 0; i < args.bytes; ++i) printf ...; if (args.hex) printf ("\n")
PrintOutput(p) ==
    /\ pc[p] = "print"
    /\ out' = [out EXCEPT ![p] = @ \o Output(buf[p], args[p].hex)]
    /\ pc' = [pc EXCEPT ![p] = "opendir"]
    /\ UNCHANGED <<fs, args, st, seed, size, buf, err, status, unlinks,
                   loadret, saveret, prevsave, runs, cmdline, dev>>

-----------------------------------------------------------------------------
(* seed_save *)

\* the argument of seed_save in main
SavePath == SEED_FILE

\* dirpart of seed_save: the path up to its last '/'
DirPart(path) == IF path = SEED_FILE THEN SEED_DIR ELSE "/dev"

\* dir = opendir (dirpart); if (!dir) { ENOENT: mkdir; else: report }
OpenDir(p) ==
    /\ pc[p] = "opendir"
    /\ \E e \in {"OK", "ENOENT", "EACCES"} :
         /\ (e = "ENOENT") <=> (DirPart(SavePath) = SEED_DIR /\ ~fs.dir)
         /\ pc' = [pc EXCEPT ![p] = IF e = "ENOENT" THEN "mkdir" ELSE "write"]
         /\ err' = [err EXCEPT ![p] =
                      IF e = "EACCES" THEN Append(@, "Error executing opendir") ELSE @]
    /\ UNCHANGED <<fs, args, st, seed, size, buf, out, status, unlinks,
                   loadret, saveret, prevsave, runs, cmdline, dev>>

\* Mkdir with seed_save returning when mkdir fails, before RAND_write_file
MkdirGivesUp(p) ==
    /\ pc[p] = "mkdir"
    /\ \E ok \in BOOLEAN :
         /\ ok => (DirPart(SavePath) = SEED_DIR /\ ~fs.dir)
         /\ fs' = IF ok /\ DirPart(SavePath) = SEED_DIR THEN [fs EXCEPT !.dir = TRUE] ELSE fs
         /\ dev' = dev
         /\ err' = [err EXCEPT ![p] =
                      IF ok THEN @ ELSE Append(@, "Error executing mkdir")]
         /\ pc' = [pc EXCEPT ![p] = IF ok THEN "write" ELSE "done"]
         /\ status' = [status EXCEPT ![p] = IF ok THEN @ ELSE EXIT_SUCCESS]
    /\ UNCHANGED <<args, st, seed, size, buf, out, unlinks,
                   loadret, saveret, prevsave, runs, cmdline>>

\* if (mkdir (dirpart, S_IRWXU | S_IRGRP | S_IXGRP) == -1) report
Mkdir(p) ==
    /\ pc[p] = "mkdir"
    /\ \E ok \in BOOLEAN :
         /\ ok => (DirPart(SavePath) = SEED_DIR /\ ~fs.dir)
         /\ fs' = IF ok /\ DirPart(SavePath) = SEED_DIR THEN [fs EXCEPT !.dir = TRUE] ELSE fs
         /\ dev' = dev
         /\ err' = [err EXCEPT ![p] =
                      IF ok THEN @ ELSE Append(@, "Error executing mkdir")]
    /\ pc' = [pc EXCEPT ![p] = "write"]
    /\ UNCHANGED <<args, st, seed, size, buf, out, status, unlinks,
                   loadret, saveret, prevsave, runs, cmdline>>

\* RAND_write_file can open the seed path for writing
Writable(f) == f.dir /\ (f.kind = "missing" \/ (f.kind = "regular" /\ f.w))

\* the seed path after RAND_write_file wrote n bytes (mode 0600)
Written(f, n) == [f EXCEPT !.kind = "regular", !.size = Off(0, n), !.r = TRUE, !.w = TRUE]

\* WriteFile with main exiting with the result of seed_save
WriteFileChecked(p) ==
    /\ pc[p] = "write"
    /\ \E ret \in WriteLens \cup {-1} :
         /\ (ret # -1) => (SavePath = SEED_FILE => Writable(fs))
         /\ fs' = IF ret # -1 /\ SavePath = SEED_FILE THEN Written(fs, ret) ELSE fs
         /\ dev' = IF ret # -1 /\ SavePath = ENTROPY_SOURCE THEN "written" ELSE dev
         /\ saveret' = [saveret EXCEPT ![p] = ret]
         /\ err' = [err EXCEPT ![p] =
                      IF ret = -1 THEN Append(@, "RAND_write_file failed")
                      ELSE IF args[p].verbose THEN Append(@, "RAND_write_file wrote")
                      ELSE @]
         /\ pc' = [pc EXCEPT ![p] = IF ret = -1 THEN "failed" ELSE "done"]
         /\ status' = [status EXCEPT ![p] =
                         IF ret = -1 THEN EXIT_FAILURE ELSE EXIT_SUCCESS]
    /\ UNCHANGED <<args, st, seed, size, buf, out, unlinks, loadret, prevsave, runs, cmdline>>

\* bytes = RAND_write_file (seed_file); main ignores the result and exits 0
WriteFile(p) ==
    /\ pc[p] = "write"
    /\ \E ret \in WriteLens \cup {-1} :
         /\ (ret # -1) => (SavePath = SEED_FILE => Writable(fs))
         /\ fs' = IF ret # -1 /\ SavePath = SEED_FILE THEN Written(fs, ret) ELSE fs
         /\ dev' = IF ret # -1 /\ SavePath = ENTROPY_SOURCE THEN "written" ELSE dev
         /\ saveret' = [saveret EXCEPT ![p] = ret]
         /\ err' = [err EXCEPT ![p] =
                      IF ret = -1 THEN Append(@, "RAND_write_file failed")
                      ELSE IF args[p].verbose THEN Append(@, "RAND_write_file wrote")
                      ELSE @]
    /\ pc' = [pc EXCEPT ![p] = "done"]
    /\ status' = [status EXCEPT ![p] = EXIT_SUCCESS]
    /\ UNCHANGED <<args, st, seed, size, buf, out, unlinks, loadret, prevsave, runs, cmdline>>

-----------------------------------------------------------------------------
(* the program is run again after it has exited *)

Restart(p) ==
    /\ Exited(p)
    /\ runs < MaxRuns
    /\ runs' = runs + 1
    /\ args' = [args EXCEPT ![p] = NoArgs]
    /\ prevsave' = [prevsave EXCEPT ![p] = saveret[p]]
    /\ pc' = [pc EXCEPT ![p] = "exec"]
    /\ st' = [st EXCEPT ![p] = NoStat]
    /\ seed' = [seed EXCEPT ![p] = SEED_FILE]
    /\ size' = [size EXCEPT ![p] = ENTROPY_SIZE]
    /\ buf' = [buf EXCEPT ![p] = <<>>]
    /\ out' = [out EXCEPT ![p] = <<>>]
    /\ err' = [err EXCEPT ![p] = <<>>]
    /\ status' = [status EXCEPT ![p] = NoRet]
    /\ unlinks' = [unlinks EXCEPT ![p] = 0]
    /\ loadret' = [loadret EXCEPT ![p] = NoRet]
    /\ saveret' = [saveret EXCEPT ![p] = NoRet]
    /\ UNCHANGED <<fs, cmdline, dev>>

\* the program is started while another invocation may be running
Launch(p) ==
    /\ pc[p] = "idle"
    /\ runs < MaxRuns
    /\ runs' = runs + 1
    /\ pc' = [pc EXCEPT ![p] = "exec"]
    /\ UNCHANGED <<fs, args, st, seed, size, buf, out, err, status, unlinks, loadret,
                   saveret, prevsave, cmdline, dev>>

-----------------------------------------------------------------------------

Next ==
    \E p \in Procs :
      \/ Exec(p)
      \/ ParseArgs(p)
      \/ Access(p)
      \/ Lstat(p)
      \/ CheckRegular(p)
      \/ CheckSize(p)
      \/ LoadFile(p)
      \/ GetRand(p)
      \/ PrintOutput(p)
      \/ OpenDir(p)
      \/ Mkdir(p)
      \/ WriteFile(p)
      \/ Restart(p)

Spec == Init /\ [][Next]_vars

\* a step of invocation p: every call main makes returns
Run(p) ==
    \/ Exec(p)
    \/ ParseArgs(p)
    \/ Access(p)
    \/ Lstat(p)
    \/ CheckRegular(p)
    \/ CheckSize(p)
    \/ LoadFile(p)
    \/ GetRand(p)
    \/ PrintOutput(p)
    \/ OpenDir(p)
    \/ Mkdir(p)
    \/ WriteFile(p)

\* Spec with no invocation stopped for ever in the middle of main
SpecFair == Spec /\ \A p \in Procs : WF_vars(Run(p))

NextConc == Next \/ \E p \in Procs : Launch(p)

SpecConc == Init /\ [][NextConc]_vars

-----------------------------------------------------------------------------
(* Properties *)

\* message m is on invocation p's standard error
InErr(p, m) == \E i \in 1..Len(err[p]) : err[p][i] = m

\* invocation p has not finished seed selection: it is in seed_rand before
\* the call of RAND_load_file, or has not entered seed_rand
Selecting(p) ==
    pc[p] \in {"exec", "parse", "rejected", "start", "lstat", "chkreg", "chksize"}

\* seed_rand of invocation p has called RAND_load_file
LoadTried(p) == loadret[p] # NoRet

\* a diagnostic of seed_rand that announces the fall back to ENTROPY_SOURCE
FallbackDiags ==
    {"Unable to access seed file", "Seed file isn't regular file",
     "Seed file is too small"}

\* C1: seed selection never fails: a run never reaches Failed without
\* having called RAND_load_file.
C1_NeverFailsBeforeLoad ==
    \A p \in Procs : pc[p] = "failed" => LoadTried(p)

\* C1 (amended): a run reaches Failed without having called RAND_load_file
\* only when lstat on the accessible seed path failed: it has printed the
\* lstat error and nothing else, has attempted no deletion and exits with
\* failure; in every other case selection ends at the load step with the
\* seed file or the entropy device as source.
C1_FailsBeforeLoadOnlyOnLstat ==
    \A p \in Procs :
      /\ (pc[p] = "failed" /\ ~LoadTried(p)) =>
            /\ err[p] \in {<<"lstat: ENOENT">>, <<"lstat: EIO">>}
            /\ st[p] = NoStat
            /\ unlinks[p] = 0
            /\ status[p] = EXIT_FAILURE
      /\ (pc[p] = "load") =>
            /\ seed[p] \in {SEED_FILE, ENTROPY_SOURCE}
            /\ (seed[p] = ENTROPY_SOURCE) <=> (\E m \in FallbackDiags : InErr(p, m))

C1_Witness ==
    \E p \in Procs : pc[p] = "failed" /\ ~LoadTried(p) /\ err[p] = <<"lstat: EIO">>

\* C2: when lstat reports the accessible seed path as a regular file of
\* L >= 32 bytes, selection ends with the seed file as source and L as read
\* size, with no fall-back diagnostic and no deletion attempt.
C2_ValidSeedReadWhole ==
    \A p \in Procs :
      (~Selecting(p) /\ st[p].kind = "regular" /\ ~OffLess(st[p].size, 32)) =>
          /\ seed[p] = SEED_FILE
          /\ st[p].size = Off(0, size[p])
          /\ unlinks[p] = 0
          /\ ~\E m \in FallbackDiags : InErr(p, m)

\* C3: when lstat reports the accessible seed path as no regular file, of
\* whatever length, seed_rand falls back to the entropy device and calls
\* unlink on the seed path; a failed unlink is reported on standard error
\* and the run goes on to the load step.
C3_NonRegularFallsBack ==
    \A p \in Procs :
      (st[p].kind \in {"directory", "symlink"} /\ pc[p] # "chkreg") =>
          /\ seed[p] = ENTROPY_SOURCE
          /\ unlinks[p] >= 1
          /\ InErr(p, "Seed file isn't regular file")
          /\ (pc[p] = "chksize" /\ fs.kind # "missing") =>
                err[p][Len(err[p])] = "unlink failed"
          /\ (pc[p] = "failed") => LoadTried(p)
          /\ ~Selecting(p) => (pc[p] = "load" \/ LoadTried(p))

C3_Witness ==
    \E p \in Procs :
      /\ st[p] = [kind |-> "directory", size |-> Off(0, 4096)]
      /\ fs.kind = "directory"
      /\ InErr(p, "unlink failed")
      /\ seed[p] = ENTROPY_SOURCE
      /\ pc[p] = "draw"

\* C4: when lstat reports the accessible seed path as a regular file of
\* fewer than 32 bytes, seed_rand falls back to the entropy device and calls
\* unlink on the seed path.
C4_UndersizedFallsBack ==
    \A p \in Procs :
      (st[p].kind = "regular" /\ OffLess(st[p].size, 32) /\ ~Selecting(p)) =>
          /\ seed[p] = ENTROPY_SOURCE
          /\ unlinks[p] = 1
          /\ InErr(p, "Seed file is too small")

C4_Witness ==
    \E p \in Procs :
      /\ st[p] = [kind |-> "regular", size |-> Off(0, 31)]
      /\ pc[p] = "load"
      /\ seed[p] = ENTROPY_SOURCE
      /\ unlinks[p] = 1
      /\ fs.kind = "missing"

\* C5: when the seed path is not accessible for both read and write
\* (missing, read-only, write-only, no permission), the access step goes
\* straight to the load step with the entropy device as source and the
\* "Unable to access" diagnostic, and leaves the seed path as it is; the run
\* never calls unlink.
C5_InaccessibleFallsBack ==
    /\ [][\A p \in Procs :
            (pc[p] = "start" /\ pc'[p] # "start"
               /\ ~(fs.kind # "missing" /\ fs.r /\ fs.w)) =>
                /\ pc'[p] = "load"
                /\ seed'[p] = ENTROPY_SOURCE
                /\ err'[p] = <<"Unable to access seed file">>
                /\ fs' = fs]_vars
    /\ [](\A p \in Procs :
            (InErr(p, "Unable to access seed file")) =>
                unlinks[p] = 0 /\ st[p] = NoStat /\ seed[p] = ENTROPY_SOURCE)

C5_Witness ==
    \E p \in Procs :
      /\ pc[p] = "draw"
      /\ InErr(p, "Unable to access seed file")
      /\ fs.kind = "regular" /\ fs.r /\ ~fs.w
      /\ runs = 1

\* C6: standard output is written only after RAND_bytes has succeeded: a run
\* whose draw fails writes no byte to standard output and exits with a
\* non-zero status, a failed run has written nothing, and whatever is on
\* standard output is the whole output of args.bytes drawn bytes.
C6_NoOutputUnlessDrawn ==
    \A p \in Procs :
      /\ InErr(p, "RAND_bytes failed") =>
            out[p] = <<>> /\ pc[p] = "failed" /\ status[p] # EXIT_SUCCESS
      /\ (pc[p] = "failed") => out[p] = <<>> /\ status[p] # EXIT_SUCCESS
      /\ (out[p] # <<>>) =>
            /\ Len(buf[p]) = args[p].bytes
            /\ Len(out[p]) = IF args[p].hex THEN 2 * args[p].bytes + 1
                             ELSE args[p].bytes

C6_Witness ==
    \E p \in Procs :
      /\ pc[p] = "failed"
      /\ err[p][Len(err[p])] = "RAND_bytes failed"
      /\ loadret[p] = size[p]
      /\ out[p] = <<>>

\* C7: when RAND_load_file returns a count other than the read size, the
\* run is Failed: it exits with failure status, RAND_bytes is never called,
\* nothing is written to standard output and the seed is not saved.
C7_LoadFailureIsFatal ==
    \A p \in Procs :
      (LoadTried(p) /\ loadret[p] # size[p]) =>
          /\ pc[p] = "failed"
          /\ status[p] = EXIT_FAILURE
          /\ err[p][Len(err[p])] = "RAND_load_file failed"
          /\ buf[p] = <<>>
          /\ out[p] = <<>>
          /\ saveret[p] = NoRet

C7_Witness ==
    \E p \in Procs :
      /\ loadret[p] = 0
      /\ size[p] = 2048
      /\ seed[p] = SEED_FILE
      /\ pc[p] = "failed"

\* C8: once the draw has succeeded the run ends in Done with exit status
\* success, and standard output holds exactly the drawn bytes (in the
\* requested format) from the end of the output loop on, whether opendir,
\* mkdir or RAND_write_file succeed or fail.
C8_PersistFailureHarmless ==
    \A p \in Procs :
      /\ (pc[p] \in {"opendir", "mkdir", "write", "done"}) =>
            out[p] = Output(buf[p], args[p].hex) /\ buf[p] # <<>>
      /\ (pc[p] = "done") =>
            status[p] = EXIT_SUCCESS /\ saveret[p] \in WriteLens \cup {-1}
      /\ (buf[p] # <<>> /\ Exited(p)) => pc[p] = "done"
      /\ (buf[p] # <<>>) => status[p] \in {NoRet, EXIT_SUCCESS}

C8_Witness ==
    \E p \in Procs :
      /\ pc[p] = "done"
      /\ saveret[p] = -1
      /\ InErr(p, "Error executing mkdir")
      /\ status[p] = EXIT_SUCCESS
      /\ out[p] = <<48, 97, 97, 98, 10>>

C10_NoFailureByRace ==
    [][\A p \in Procs :
         (pc'[p] = "failed" /\ pc[p] # "failed") =>
            /\ (pc[p] = "lstat") => fs.kind # "missing"
            /\ (pc[p] = "load" /\ seed[p] = SEED_FILE) =>
                  LoadCount(seed[p], size[p], fs) = size[p]]_vars

\* invocation p is past args_parse and args_sanity and has not been rejected
InCore(p) == pc[p] \notin {"idle", "exec", "parse", "rejected"}

\* a command line that does not ask for help and is malformed or out of
\* range: an option that is not in the options table, no bytes word or more
\* than one, or a bytes word that is not the numeral of a count in
\* 1..MaxBytes (not a numeral, negative, 0, or too large)
Malformed(c) ==
    /\ \A i \in 1..Len(c.opts) : c.opts[i] # "--help"
    /\ \/ \E i \in 1..Len(c.opts) : c.opts[i] = "--bogus"
       \/ Len(c.pos) # 1
       \/ c.pos[1] \notin {Digits(n) : n \in 1..MaxBytes}

\* C11: every malformed or out-of-range command line makes the process exit
\* with a non-zero status at the command surface, and seed selection,
\* reseed, draw and persist run only with a byte count in 1..MaxBytes.
C11_MalformedRejected ==
    /\ [][\A p \in Procs :
            (pc[p] = "parse" /\ pc'[p] # "parse" /\ Malformed(cmdline[p])) =>
                pc'[p] = "rejected" /\ status'[p] # EXIT_SUCCESS]_vars
    /\ [](\A p \in Procs : InCore(p) => args[p].bytes \in 1..MaxBytes)

\* the characters 0-9 and a-f
HexChars == (48..57) \cup (97..102)

\* the value of the hexadecimal character c
HexVal(c) == IF c <= 57 THEN c - 48 ELSE c - 87

\* C12: the standard output of a run that ended with success after a draw
\* is, in raw mode, exactly the drawn bytes (bytes of them, no newline) and,
\* in hex mode, two lowercase hexadecimal characters for each drawn byte,
\* in the order drawn, followed by exactly one newline.
C12_OutputShape ==
    \A p \in Procs :
      pc[p] = "done" =>
        LET n == args[p].bytes
            o == out[p]
        IN /\ n \in 1..MaxBytes
           /\ Len(buf[p]) = n
           /\ IF args[p].hex
              THEN /\ Len(o) = 2 * n + 1
                   /\ o[2 * n + 1] = 10
                   /\ \A i \in 1..n :
                        /\ o[2 * i - 1] \in HexChars
                        /\ o[2 * i] \in HexChars
                        /\ 16 * HexVal(o[2 * i - 1]) + HexVal(o[2 * i]) = buf[p][i]
              ELSE o = buf[p]

C12_Witness ==
    \E p \in Procs :
      /\ pc[p] = "done"
      /\ args[p].hex
      /\ buf[p] = <<171, 10>>
      /\ out[p] = <<97, 98, 48, 97, 10>>

\* the diagnostics of seed selection: the fall back to ENTROPY_SOURCE and
\* a failed unlink of the rejected seed file
AnomalyDiags == FallbackDiags \cup {"unlink failed"}

\* the diagnostics of a failure that ends the run with EXIT_FAILURE
FatalDiags ==
    {"lstat: ENOENT", "lstat: EIO", "RAND_load_file failed", "RAND_bytes failed"}

\* the diagnostics of a failure in seed_save
PersistDiags ==
    {"Error executing opendir", "Error executing mkdir", "RAND_write_file failed"}

\* the messages that report progress
InfoDiags == {"RAND_load_file: loaded", "reading RAND_bytes", "RAND_write_file wrote"}

\* every diagnostic of invocation p is in the set D
DiagsWithin(p, D) == \A i \in 1..Len(err[p]) : err[p][i] \in D

\* C13: a run with verbose off emits only seed-selection anomaly/fallback
\* messages and fatal-failure messages; every other diagnostic, those of
\* the persistence step included, is emitted only with verbose on.
C13_QuietUnlessAnomalyOrFatal ==
    \A p \in Procs :
      (InCore(p) /\ ~args[p].verbose) =>
          DiagsWithin(p, AnomalyDiags \cup FatalDiags)

\* C13 (amended): a run with verbose off emits only failure diagnostics:
\* those of seed selection, of a fatal failure and of a failure in the
\* persistence step (opendir, mkdir, RAND_write_file); the progress
\* messages are emitted only with verbose on. Whatever verbose is, a
\* fallback, a load failure, a draw failure and a failed state write each
\* have their diagnostic emitted.
C13_QuietUnlessFailure ==
    \A p \in Procs :
      InCore(p) =>
        /\ ~args[p].verbose =>
              DiagsWithin(p, AnomalyDiags \cup FatalDiags \cup PersistDiags)
        /\ args[p].verbose =>
              DiagsWithin(p, AnomalyDiags \cup FatalDiags \cup PersistDiags
                                \cup InfoDiags)
        /\ seed[p] = ENTROPY_SOURCE => \E m \in FallbackDiags : InErr(p, m)
        /\ (LoadTried(p) /\ loadret[p] # size[p]) => InErr(p, "RAND_load_file failed")
        /\ (pc[p] = "failed" /\ LoadTried(p) /\ loadret[p] = size[p]) =>
              InErr(p, "RAND_bytes failed")
        /\ saveret[p] = -1 => InErr(p, "RAND_write_file failed")

C13_Witness ==
    \E p \in Procs :
      /\ pc[p] = "done"
      /\ ~args[p].verbose
      /\ err[p] = <<"Seed file is too small", "Error executing opendir",
                    "RAND_write_file failed">>

\* C14: the entropy device is only ever read: no unlink, mkdir or state
\* write of any run has it as target (their targets are the seed path and
\* its parent directory), so the device is as it was at the start.
C14_DeviceOnlyRead == dev = "device"

C14_Witness ==
    \E p \in Procs :
      /\ pc[p] = "done"
      /\ seed[p] = ENTROPY_SOURCE
      /\ loadret[p] = ENTROPY_SIZE
      /\ unlinks[p] = 1
      /\ ~InErr(p, "unlink failed")
      /\ saveret[p] = 256
      /\ fs.kind = "regular"
      /\ dev = "device"

\* the position of a run in main, counted from the entry of seed_rand
Rank(s) ==
    CASE s = "start" -> 1 [] s = "lstat" -> 2 [] s = "chkreg" -> 3
      [] s = "chksize" -> 4 [] s = "load" -> 5 [] s = "draw" -> 6
      [] s = "print" -> 7 [] s = "opendir" -> 8 [] s = "mkdir" -> 9
      [] s = "write" -> 10 [] s = "done" -> 11 [] OTHER -> 0

\* the step of the run's lifecycle: 1 Start (seed selection), 2 SeedSelected
\* (the load is next), 3 Reseeded (the draw is next), 4 Drawn (the output is
\* next), 5 output written (seed_save is running), 6 Done
Phase(s) ==
    IF Rank(s) = 0 THEN 0
    ELSE IF Rank(s) <= 4 THEN 1
    ELSE IF Rank(s) <= 7 THEN Rank(s) - 3
    ELSE IF Rank(s) <= 10 THEN 5
    ELSE 6

\* C15: a run goes through Start, SeedSelected, Reseeded, Drawn, output
\* written, persist attempted and Done in this order, skipping and
\* repeating none; it draws only after RAND_load_file returned the size
\* asked for, calls RAND_write_file once and only after the output was
\* written; Failed is entered from Start, SeedSelected or Reseeded only and
\* is left by no step of the run, and a run that failed has not called
\* RAND_write_file.
C15_LifecycleOrder ==
    /\ [][\A p \in Procs :
            /\ (InCore(p) /\ pc'[p] # pc[p] /\ pc[p] \notin {"done", "failed"}) =>
                  \/ /\ Rank(pc'[p]) > Rank(pc[p])
                     /\ Phase(pc'[p]) <= Phase(pc[p]) + 1
                  \/ pc'[p] = "failed" /\ Phase(pc[p]) \in 1..3
            /\ (pc[p] \in {"done", "failed"} /\ pc'[p] # pc[p]) =>
                  pc'[p] = "exec" /\ runs' = runs + 1
            /\ (saveret'[p] # saveret[p] /\ pc'[p] # "exec") =>
                  pc[p] = "write" /\ saveret[p] = NoRet /\ pc'[p] = "done"
            /\ (pc'[p] # pc[p] /\ fs' # fs) =>
                  \/ Phase(pc[p]) = 5
                  \/ Phase(pc[p]) = 1 /\ fs' = Removed(fs)]_vars
    /\ [](\A p \in Procs :
            /\ (Phase(pc[p]) >= 3 \/ buf[p] # <<>>) =>
                  LoadTried(p) /\ loadret[p] = size[p]
            /\ Phase(pc[p]) >= 5 =>
                  Len(buf[p]) = args[p].bytes /\ Len(out[p]) >= Len(buf[p])
            /\ Phase(pc[p]) \in 1..4 => out[p] = <<>>
            /\ pc[p] = "done" <=> saveret[p] # NoRet
            /\ pc[p] = "failed" => saveret[p] = NoRet /\ out[p] = <<>>)

C15_Witness ==
    \E p \in Procs :
      /\ pc[p] = "done"
      /\ runs = 2
      /\ seed[p] = SEED_FILE
      /\ loadret[p] = 1024
      /\ Len(out[p]) = MaxBytes
      /\ saveret[p] = 256

\* C16: seed_save calls mkdir only when opendir failed because the parent
\* directory is absent, and only mkdir creates the directory; whether the
\* directory was there, was created, could not be created or could not be
\* opened, seed_save goes on to call RAND_write_file, and it reports a
\* failure ("RAND_write_file failed", return 1) only when that call
\* returned -1.
C16_PersistAlwaysWrites ==
    /\ [][\A p \in Procs :
            /\ (pc[p] = "opendir" /\ pc'[p] # pc[p]) =>
                  /\ pc'[p] \in {"mkdir", "write"}
                  /\ pc'[p] = "mkdir" <=> ~fs.dir
                  /\ fs' = fs
            /\ (pc[p] = "mkdir" /\ pc'[p] # pc[p]) =>
                  /\ pc'[p] = "write"
                  /\ fs' # fs => (~fs.dir /\ fs' = [fs EXCEPT !.dir = TRUE])
            /\ (pc[p] = "write" /\ pc'[p] # pc[p]) =>
                  /\ pc'[p] = "done"
                  /\ saveret'[p] \in WriteLens \cup {-1}
            /\ (pc'[p] # pc[p] /\ fs'.dir # fs.dir) => pc[p] = "mkdir"]_vars
    /\ [](\A p \in Procs :
            pc[p] = "done" =>
              /\ saveret[p] # NoRet
              /\ InErr(p, "RAND_write_file failed") <=> saveret[p] = -1)

C16_Witness ==
    \E p \in Procs :
      /\ pc[p] = "done"
      /\ InErr(p, "Error executing opendir")
      /\ ~InErr(p, "RAND_write_file failed")
      /\ saveret[p] = 1024

\* C17: whenever seed_rand selected ENTROPY_SOURCE, the read size it passes
\* to RAND_load_file is ENTROPY_SIZE; a read size taken from st_size is
\* passed only together with the seed file.
C17_FallbackReadsEntropySize ==
    \A p \in Procs :
      (pc[p] = "load" \/ LoadTried(p)) =>
          /\ seed[p] = ENTROPY_SOURCE => size[p] = 32
          /\ size[p] # 32 => seed[p] = SEED_FILE

\* the number of fallback diagnostics among the first n diagnostics of p
RECURSIVE FallbackCount(_, _)
FallbackCount(p, n) ==
    IF n = 0 THEN 0
    ELSE FallbackCount(p, n - 1) + (IF err[p][n] \in FallbackDiags THEN 1 ELSE 0)

\* C18: the cases of seed selection exclude each other: a run emits at most
\* one fallback diagnostic and calls unlink at most once, whatever the kind
\* and the length of the seed path.
C18_OneFallbackOneUnlink ==
    \A p \in Procs :
      /\ FallbackCount(p, Len(err[p])) <= 1
      /\ unlinks[p] <= 1

\* C19: when an invocation calls unlink, the seed path is not a regular
\* file of at least ENTROPY_SIZE bytes, whatever another invocation did
\* before: no invocation deletes a valid seed file.
C19_UnlinkOnlyInvalid ==
    [][\A p \in Procs :
         unlinks'[p] = unlinks[p] + 1 =>
             ~(fs.kind = "regular" /\ ~OffLess(fs.size, 32))]_vars

\* C20: when every call returns, an invocation that was started exits, and
\* one that entered seed_rand ends in Done with EXIT_SUCCESS or in Failed
\* with EXIT_FAILURE; no step of main is taken twice in a run (there is no
\* retry), and the output loop has printed one item for each of the
\* args.bytes bytes when it is left.
C20_Terminates ==
    /\ \A p \in Procs : (pc[p] \in {"exec", "parse"}) ~> Exited(p)
    /\ \A p \in Procs : (Rank(pc[p]) \in 1..10) ~> (pc[p] \in {"done", "failed"})
    /\ [][\A p \in Procs :
            (Rank(pc[p]) \in 1..10 /\ pc'[p] # pc[p]) =>
                Rank(pc'[p]) > Rank(pc[p]) \/ pc'[p] = "failed"]_vars
    /\ [](\A p \in Procs :
            /\ pc[p] = "done" => status[p] = EXIT_SUCCESS
            /\ pc[p] = "failed" => status[p] = EXIT_FAILURE
            /\ Rank(pc[p]) >= 8 =>
                 Len(out[p]) = IF args[p].hex THEN 2 * args[p].bytes + 1
                               ELSE args[p].bytes)

C20_Witness ==
    \E p \in Procs :
      /\ pc[p] = "failed"
      /\ runs = 2
      /\ prevsave[p] = 256
      /\ loadret[p] = 256
      /\ err[p] = <<"RAND_bytes failed">>
      /\ status[p] = EXIT_FAILURE

=============================================================================
